---- MODULE Spec2Model ----
(***************************************************************************)
(* ExportBlend (src/__init__.py): export of Blender node groups to Python  *)
(* source text.  The model covers the identifier sanitizer, the dependency *)
(* discovery, the per-graph emitter, the program assembler and the two     *)
(* export operators with their delivery sinks.                             *)
(*                                                                         *)
(* Text is modelled structurally: a generated program is a record of its   *)
(* routines, helpers and driver statements; a name is a sequence of        *)
(* characters.                                                             *)
(***************************************************************************)
EXTENDS Integers, Sequences, FiniteSets, TLC

VARIABLES trees, edit_tree, props, fs_ok, clipboard, texts, files, reports, ret

vars == <<trees, edit_tree, props, fs_ok, clipboard, texts, files, reports, ret>>

(***************************************************************************)
(* Bounds of the model.                                                    *)
(***************************************************************************)
NumGraphs == 3      \* node groups in bpy.data.node_groups
MaxRefs == 3        \* nodes over all graphs in the dependency specification
MaxLinks == 2       \* links of the graph in the link specification
MaxLen == 3         \* characters of a display name given to sanitize_name

None == 0           \* Python's None for an unset node_tree / edit_tree

(***************************************************************************)
(* Characters.  "U0130" is LATIN CAPITAL LETTER I WITH DOT ABOVE, whose    *)
(* str.lower() is the two characters "i" and "U0307" (COMBINING DOT ABOVE).*)
(***************************************************************************)
Alphabet == {"a", "A", "1", "_", "-", "U0130"}

LowerLetters == {"a", "i", "n", "o", "d", "e"}

UpperLetters == {"A", "U0130"}

Digits == {"1"}

\* str.isalnum and str.isdigit; "U0307" is a combining mark: not alphanumeric
IsAlnum(c) == c \in LowerLetters \cup UpperLetters \cup Digits

IsDigit(c) == c \in Digits

Lower(c) ==
    CASE c = "A" -> <<"a">>
      [] c = "U0130" -> <<"i", "U0307">>
      [] OTHER -> <<c>>

RECURSIVE LowerStr(_)
LowerStr(s) == IF s = <<>> THEN <<>> ELSE Lower(Head(s)) \o LowerStr(Tail(s))

ReplaceChar(c) == IF IsAlnum(c) \/ c = "_" THEN c ELSE "_"

\* the sanitizer without its leading-digit step
PrefixIfDigitForgotten(result) == result

\* "if result and result[0].isdigit(): result = '_' + result"
PrefixIfDigit(result) ==
    IF result # <<>> /\ IsDigit(result[1]) THEN <<"_">> \o result ELSE result

PlaceholderIfEmpty(result) ==
    IF result = <<>> THEN <<"n", "o", "d", "e">> ELSE result

SanitizeName(name) ==
    LET copied == [i \in 1..Len(name) |-> ReplaceChar(name[i])]
    IN  LowerStr(PlaceholderIfEmpty(PrefixIfDigit(copied)))

(***************************************************************************)
(* Names of graphs and nodes: pairwise distinct display names, some of     *)
(* which sanitize to the same identifier ("A" and "a").                    *)
(***************************************************************************)
NameOf(k) ==
    <<IF k % 2 = 1 THEN "A" ELSE "a">>
        \o [i \in 1..((k - 1) \div 2) |-> IF k % 2 = 1 THEN "-" ELSE "_"]

TreeKinds == <<"GeometryNodeTree", "ShaderNodeTree", "CompositorNodeTree">>

KindOf(g) == TreeKinds[((g - 1) % Len(TreeKinds)) + 1]

GroupIdnames ==
    {"GeometryNodeGroup", "ShaderNodeGroup", "CompositorNodeGroup", "TextureNodeGroup"}

GetNodeTreeType(tree) ==
    CASE tree.bl_idname = "ShaderNodeTree" -> "ShaderNodeTree"
      [] tree.bl_idname = "GeometryNodeTree" -> "GeometryNodeTree"
      [] tree.bl_idname = "CompositorNodeTree" -> "CompositorNodeTree"
      [] tree.bl_idname = "TextureNodeTree" -> "TextureNodeTree"
      [] OTHER -> tree.bl_idname

(***************************************************************************)
(* Sequences as Python lists.                                              *)
(***************************************************************************)
Contains(list, x) == \E i \in 1..Len(list) : list[i] = x

\* the same with list.insert(0, x) in place of list.append(x)
AppendIfAbsentFront(list, x) == IF Contains(list, x) THEN list ELSE <<x>> \o list

\* "if x not in list: list.append(x)"
AppendIfAbsent(list, x) == IF Contains(list, x) THEN list ELSE Append(list, x)

\* list.extend(more) without the membership test
ExtendAbsentAll(list, more) == list \o more

RECURSIVE ExtendAbsent(_, _)
ExtendAbsent(list, more) ==
    IF more = <<>> THEN list
    ELSE ExtendAbsent(AppendIfAbsent(list, Head(more)), Tail(more))

NoDuplicates(list) ==
    \A i, j \in 1..Len(list) : list[i] = list[j] => i = j

\* list.index(x): zero-based position of the first element equal to x
ListIndex(list, x) == (CHOOSE i \in 1..Len(list) :
                          list[i] = x /\ \A j \in 1..(i - 1) : list[j] # x) - 1

(***************************************************************************)
(* Dependency discovery: find_nested_node_groups.  The visited set is one  *)
(* Python set shared by all recursive calls, so every call returns it      *)
(* along with its list.  entered and calls are history: the graphs whose   *)
(* body ran past the visited check, and the number of calls made.          *)
(***************************************************************************)
IsNestedRef(node) ==
    /\ node.bl_idname \in GroupIdnames
    /\ "node_tree" \in node.attrs
    /\ node.node_tree # None

VisitedAdd(visited, name) == visited \cup {name}

RECURSIVE FindNestedNodeGroups(_, _, _)
RECURSIVE FindNestedLoop(_, _, _, _)

FindNestedNodeGroups(T, g, visited) ==
    IF T[g].name \in visited
    THEN [nested |-> <<>>, visited |-> visited, entered |-> <<>>, calls |-> 1]
    ELSE FindNestedLoop(T, g, 1,
            [nested |-> <<>>, visited |-> VisitedAdd(visited, T[g].name),
             entered |-> <<g>>, calls |-> 1])

FindNestedLoop(T, g, i, acc) ==
    IF i > Len(T[g].nodes) THEN acc
    ELSE LET node == T[g].nodes[i]
         IN  IF IsNestedRef(node)
             THEN LET sub == FindNestedNodeGroups(T, node.node_tree, acc.visited)
                      withSub == ExtendAbsent(acc.nested, sub.nested)
                  IN  FindNestedLoop(T, g, i + 1,
                         [nested |-> AppendIfAbsent(withSub, node.node_tree),
                          visited |-> sub.visited,
                          entered |-> acc.entered \o sub.entered,
                          calls |-> acc.calls + sub.calls])
             ELSE FindNestedLoop(T, g, i + 1, acc)

(***************************************************************************)
(* Value Formatter: format_value and get_socket_default_value.  A value is *)
(* a record tagged with its Python type; NoLiteral is the None result.     *)
(***************************************************************************)
NoLiteral == [lit |-> "none"]

Aggregates == {"Vector", "Color", "Euler", "Quaternion"}

\* the formatter without its single-character test
FormatValueNoCharTest(val) ==
    CASE val.t = "NoneType" -> NoLiteral
      [] val.t \in {"str", "bool", "int", "float"} -> [lit |-> "repr", of |-> val]
      [] val.t \in Aggregates -> [lit |-> "tuple", items |-> val.items]
      [] val.t = "iterable" ->
            IF ~val.listable THEN NoLiteral
            ELSE [lit |-> "tuple", items |-> val.items]
      [] OTHER -> [lit |-> "repr", of |-> val]

FormatValue(val) ==
    CASE val.t = "NoneType" -> NoLiteral
      [] val.t \in {"str", "bool", "int", "float"} -> [lit |-> "repr", of |-> val]
      [] val.t \in Aggregates -> [lit |-> "tuple", items |-> val.items]
      [] val.t = "iterable" ->
            IF ~val.listable THEN NoLiteral
            ELSE IF /\ val.items # <<>>
                    /\ \A k \in 1..Len(val.items) :
                          val.items[k].t = "str" /\ Len(val.items[k].v) = 1
                 THEN NoLiteral
                 ELSE [lit |-> "tuple", items |-> val.items]
      [] OTHER -> [lit |-> "repr", of |-> val]

GetSocketDefaultValue(socket) ==
    IF ~socket.has_default THEN NoLiteral ELSE FormatValue(socket.default_value)

(***************************************************************************)
(* Property Exporter: export_node_properties.  A result is the statements  *)
(* appended to lines, or the exception that left the function.             *)
(***************************************************************************)
SKIP_PROPS ==
    {"name", "label", "location", "width", "width_hidden", "height",
     "dimensions", "type", "bl_idname", "bl_label", "bl_description",
     "bl_icon", "bl_static_type", "bl_width_default", "bl_width_min",
     "bl_width_max", "bl_height_default", "bl_height_min", "bl_height_max",
     "color", "use_custom_color", "select", "show_options", "show_preview",
     "hide", "mute", "show_texture", "inputs", "outputs", "internal_links",
     "parent", "rna_type", "is_registered_node_type", "location_absolute",
     "warning_propagation", "is_active_output"}

NoValue == "<None>"

Ok(stmts) == [raised |-> FALSE, exc |-> "", stmts |-> stmts]

Raise(exc) == [raised |-> TRUE, exc |-> exc, stmts |-> <<>>]

\* One statement "var.attr = node.attr"; reading an attribute the node does
\* not have raises AttributeError.
ReadAttrs(node, attrs) ==
    IF \E k \in 1..Len(attrs) : attrs[k] \notin node.attrs
    THEN Raise("AttributeError")
    ELSE Ok([k \in 1..Len(attrs) |-> [stmt |-> "set", attr |-> attrs[k]]])

OptionalAttrs(node, attrs) ==
    LET present(k) == attrs[k] \in node.attrs
    IN  [k \in 1..Len(SelectSeq([k \in 1..Len(attrs) |-> k], present)) |->
            [stmt |-> "set",
             attr |-> attrs[SelectSeq([j \in 1..Len(attrs) |-> j], present)[k]]]]

Then(first, more) ==
    IF first.raised THEN first ELSE Ok(first.stmts \o more)

NestedBinding(node, T) ==
    IF "node_tree" \notin node.attrs THEN Raise("AttributeError")
    ELSE IF node.node_tree = None THEN Ok(<<>>)
    ELSE Ok(<<[stmt |-> "bind_node_tree", tree |-> T[node.node_tree].name,
               guarded |-> TRUE, warns |-> TRUE]>>)

\* the fallback with one try around the whole loop: a failed read ends it
RECURSIVE GenericFallbackAbortOnFailure(_, _)
GenericFallbackAbortOnFailure(node, k) ==
    IF k > Len(node.rna) THEN <<>>
    ELSE LET prop == node.rna[k]
             rest == GenericFallbackAbortOnFailure(node, k + 1)
         IN  IF prop.identifier \in SKIP_PROPS THEN rest
             ELSE IF prop.is_readonly THEN rest
             ELSE IF prop.type \in {"ENUM", "BOOLEAN"}
                  THEN IF ~prop.readable THEN <<>>
                       ELSE IF prop.value # NoValue
                       THEN <<[stmt |-> "set", attr |-> prop.identifier,
                               quoted |-> prop.type = "ENUM"]>> \o rest
                       ELSE rest
                  ELSE rest

RECURSIVE GenericFallback(_, _)
GenericFallback(node, k) ==
    IF k > Len(node.rna) THEN <<>>
    ELSE LET prop == node.rna[k]
             rest == GenericFallback(node, k + 1)
         IN  IF prop.identifier \in SKIP_PROPS THEN rest
             ELSE IF prop.is_readonly THEN rest
             ELSE IF prop.type \in {"ENUM", "BOOLEAN"}
                  THEN IF prop.readable /\ prop.value # NoValue
                       THEN <<[stmt |-> "set", attr |-> prop.identifier,
                               quoted |-> prop.type = "ENUM"]>> \o rest
                       ELSE rest
                  ELSE rest

ExportNodeProperties(node, T) ==
    CASE node.bl_idname = "ShaderNodeMath" ->
            Then(ReadAttrs(node, <<"operation">>), OptionalAttrs(node, <<"use_clamp">>))
      [] node.bl_idname = "ShaderNodeVectorMath" -> ReadAttrs(node, <<"operation">>)
      [] node.bl_idname = "GeometryNodeGroup" -> NestedBinding(node, T)
      [] node.bl_idname = "ShaderNodeGroup" -> NestedBinding(node, T)
      [] node.bl_idname = "GeometryNodeTransform" -> Ok(<<>>)
      [] OTHER -> Ok(IF "bl_rna" \in node.attrs THEN GenericFallback(node, 1) ELSE <<>>)

(***************************************************************************)
(* Single-Graph Emitter: the node loop and the link loop of                *)
(* export_single_node_group (the root routine of                           *)
(* export_node_group_to_python repeats the same statements).               *)
(***************************************************************************)
\* the variable named without the node's position
VarNameNoIndex(i, node) == [index |-> 0, name |-> SanitizeName(node.name)]

VarName(i, node) == [index |-> i - 1, name |-> SanitizeName(node.name)]

DecimalDigits == <<"0", "1", "2", "3", "4", "5", "6", "7", "8", "9">>

\* str(i) of a non-negative integer
RECURSIVE Decimal(_)
Decimal(n) ==
    IF n < 10 THEN <<DecimalDigits[n + 1]>>
    ELSE Decimal(n \div 10) \o <<DecimalDigits[(n % 10) + 1]>>

\* the text f"node_{i}_{sanitize_name(node.name)}"
VarText(var) == <<"n", "o", "d", "e", "_">> \o Decimal(var.index) \o <<"_">> \o var.name

\* node_var_names: a dict keyed by node.name; a later node of the same name
\* overwrites an earlier one.
NodeVarNames(tree) ==
    [n \in {tree.nodes[i].name : i \in 1..Len(tree.nodes)} |->
        LET last == CHOOSE i \in 1..Len(tree.nodes) :
                       /\ tree.nodes[i].name = n
                       /\ \A j \in (i + 1)..Len(tree.nodes) : tree.nodes[j].name # n
        IN  VarName(last, tree.nodes[last])]

\* the default values of linked sockets exported as well
DefaultStatementsIgnoringLinks(node) ==
    LET emits(j) == /\ node.inputs[j].has_default
                    /\ GetSocketDefaultValue(node.inputs[j]) # NoLiteral
        js == SelectSeq([j \in 1..Len(node.inputs) |-> j], emits)
    IN  [k \in 1..Len(js) |->
            [stmt |-> "default_value", input |-> js[k] - 1, guarded |-> TRUE,
             literal |-> GetSocketDefaultValue(node.inputs[js[k]])]]

DefaultStatements(node) ==
    LET emits(j) == /\ node.inputs[j].has_default
                    /\ ~node.inputs[j].is_linked
                    /\ GetSocketDefaultValue(node.inputs[j]) # NoLiteral
        js == SelectSeq([j \in 1..Len(node.inputs) |-> j], emits)
    IN  [k \in 1..Len(js) |->
            [stmt |-> "default_value", input |-> js[k] - 1, guarded |-> TRUE,
             literal |-> GetSocketDefaultValue(node.inputs[js[k]])]]

RECURSIVE EmitNodes(_, _, _)
EmitNodes(tree, T, i) ==
    IF i > Len(tree.nodes) THEN Ok(<<>>)
    ELSE LET node == tree.nodes[i]
             own == ExportNodeProperties(node, T)
             rest == EmitNodes(tree, T, i + 1)
         IN  IF own.raised THEN own
             ELSE IF rest.raised THEN rest
             ELSE Ok(<<[var |-> VarName(i, node), node |-> node.name,
                        bl_idname |-> node.bl_idname, props |-> own.stmts,
                        defaults |-> DefaultStatements(node)]>> \o rest.stmts)

SocketIds(sockets) == [k \in 1..Len(sockets) |-> sockets[k].id]

NodeNamed(tree, n) ==
    tree.nodes[CHOOSE i \in 1..Len(tree.nodes) : tree.nodes[i].name = n]

\* the source position taken from the destination socket
FromSocketIndexSwapped(tree, link) ==
    ListIndex(SocketIds(NodeNamed(tree, link.to_node).inputs), link.to_socket)

FromSocketIndex(tree, link) ==
    ListIndex(SocketIds(NodeNamed(tree, link.from_node).outputs), link.from_socket)

ToSocketIndex(tree, link) ==
    ListIndex(SocketIds(NodeNamed(tree, link.to_node).inputs), link.to_socket)

\* "if from_node_var and to_node_var": both dict lookups found a name
BothNamed(names, link) ==
    link.from_node \in DOMAIN names /\ link.to_node \in DOMAIN names

SocketsFound(tree, link) ==
    /\ Contains(SocketIds(NodeNamed(tree, link.from_node).outputs), link.from_socket)
    /\ Contains(SocketIds(NodeNamed(tree, link.to_node).inputs), link.to_socket)

\* the link loop leaving at the first link it skips
RECURSIVE EmitLinksBreak(_, _, _)
EmitLinksBreak(tree, names, k) ==
    IF k > Len(tree.links) THEN Ok(<<>>)
    ELSE LET link == tree.links[k]
             rest == EmitLinksBreak(tree, names, k + 1)
         IN  IF ~BothNamed(names, link) THEN Ok(<<>>)
             ELSE IF ~SocketsFound(tree, link) THEN Raise("ValueError")
             ELSE IF rest.raised THEN rest
             ELSE Ok(<<[link |-> k,
                        from_var |-> names[link.from_node],
                        from_index |-> FromSocketIndex(tree, link),
                        to_var |-> names[link.to_node],
                        to_index |-> ToSocketIndex(tree, link)]>> \o rest.stmts)

RECURSIVE EmitLinks(_, _, _)
EmitLinks(tree, names, k) ==
    IF k > Len(tree.links) THEN Ok(<<>>)
    ELSE LET link == tree.links[k]
             rest == EmitLinks(tree, names, k + 1)
         IN  IF ~BothNamed(names, link) THEN rest
             ELSE IF ~SocketsFound(tree, link) THEN Raise("ValueError")
             ELSE IF rest.raised THEN rest
             ELSE Ok(<<[link |-> k,
                        from_var |-> names[link.from_node],
                        from_index |-> FromSocketIndex(tree, link),
                        to_var |-> names[link.to_node],
                        to_index |-> ToSocketIndex(tree, link)]>> \o rest.stmts)

\* interface.new_socket statements, one per item of item_type SOCKET
InterfaceStatements(tree) ==
    LET isSocket(item) == item.item_type = "SOCKET"
        items == SelectSeq(tree.interface, isSocket)
    IN  [k \in 1..Len(items) |->
            [name |-> items[k].name,
             in_out |-> IF items[k].in_out = "INPUT" THEN "INPUT" ELSE "OUTPUT",
             socket_type |-> items[k].socket_type]]

\* tail: the blank lines appended after "return node_group"
NoRoutine ==
    [graph |-> <<>>, func |-> <<>>, tree_type |-> "", interface |-> <<>>,
     nodes |-> <<>>, links |-> <<>>, tail |-> 0]

EmitRoutine(T, g) ==
    LET tree == T[g]
        nodes == EmitNodes(tree, T, 1)
        links == EmitLinks(tree, NodeVarNames(tree), 1)
    IN  IF nodes.raised THEN [raised |-> TRUE, exc |-> nodes.exc, routine |-> NoRoutine]
        ELSE IF links.raised THEN [raised |-> TRUE, exc |-> links.exc, routine |-> NoRoutine]
        ELSE [raised |-> FALSE, exc |-> "",
              routine |-> [graph |-> tree.name, func |-> SanitizeName(tree.name),
                           tree_type |-> GetNodeTreeType(tree),
                           interface |-> InterfaceStatements(tree),
                           nodes |-> nodes.stmts, links |-> links.stmts,
                           tail |-> 1]]

ExportSingleNodeGroup(T, g) == EmitRoutine(T, g)

(***************************************************************************)
(* Program Assembler: export_node_group_to_python.                         *)
(***************************************************************************)
RECURSIVE DependencyRoutines(_, _, _)
DependencyRoutines(T, nested, k) ==
    IF k > Len(nested) THEN Ok(<<>>)
    ELSE LET one == ExportSingleNodeGroup(T, nested[k])
             rest == DependencyRoutines(T, nested, k + 1)
         IN  IF one.raised THEN Raise(one.exc)
             ELSE IF rest.raised THEN rest
             ELSE Ok(<<one.routine>> \o rest.stmts)

\* the root routine written without its link loop
MainRoutineWithoutLinks(T, g) ==
    LET tree == T[g]
        nodes == EmitNodes(tree, T, 1)
    IN  IF nodes.raised THEN [raised |-> TRUE, exc |-> nodes.exc, routine |-> NoRoutine]
        ELSE [raised |-> FALSE, exc |-> "",
              routine |-> [graph |-> tree.name, func |-> SanitizeName(tree.name),
                           tree_type |-> GetNodeTreeType(tree),
                           interface |-> InterfaceStatements(tree),
                           nodes |-> nodes.stmts, links |-> <<>>,
                           tail |-> 2]]

\* The root routine is written out in export_node_group_to_python itself:
\* the same interface, node and link statements, then two blank lines.
MainRoutine(T, g) ==
    LET tree == T[g]
        nodes == EmitNodes(tree, T, 1)
        links == EmitLinks(tree, NodeVarNames(tree), 1)
    IN  IF nodes.raised THEN [raised |-> TRUE, exc |-> nodes.exc, routine |-> NoRoutine]
        ELSE IF links.raised THEN [raised |-> TRUE, exc |-> links.exc, routine |-> NoRoutine]
        ELSE [raised |-> FALSE, exc |-> "",
              routine |-> [graph |-> tree.name, func |-> SanitizeName(tree.name),
                           tree_type |-> GetNodeTreeType(tree),
                           interface |-> InterfaceStatements(tree),
                           nodes |-> nodes.stmts, links |-> links.stmts,
                           tail |-> 2]]

\* "visited=None" in the signature: the default is not a mutable object
DefaultVisited == None

\* a default set shared by all calls: it still holds the names the previous
\* run of an operator left in it
InitialVisitedShared(visited) ==
    IF ret.val.code = <<>> THEN {}
    ELSE {trees[ret.root].name}
            \cup {trees[ret.val.code[1].nested[k]].name :
                     k \in 1..Len(ret.val.code[1].nested)}

\* "if visited is None: visited = set()"
InitialVisited(visited) == IF visited = None THEN {} ELSE visited

\* discovery run whatever the include_nested option says
NestedGroupsOfAlways(T, g, include_nested) ==
    FindNestedNodeGroups(T, g, InitialVisited(DefaultVisited)).nested

NestedGroupsOf(T, g, include_nested) ==
    IF include_nested
    THEN FindNestedNodeGroups(T, g, InitialVisited(DefaultVisited)).nested
    ELSE <<>>

\* the test looking at the root only
HasGeometryNodesRootOnly(T, g, nested) ==
    GetNodeTreeType(T[g]) = "GeometryNodeTree"

HasGeometryNodes(T, g, nested) ==
    \/ GetNodeTreeType(T[g]) = "GeometryNodeTree"
    \/ \E k \in 1..Len(nested) : GetNodeTreeType(T[nested[k]]) = "GeometryNodeTree"

EmitsObjectHelper(T, g, nested, auto_assign) ==
    HasGeometryNodes(T, g, nested) /\ auto_assign

\* the material helper emitted for a root of any kind
EmitsMaterialHelperAnyRoot(T, g, auto_assign) == auto_assign

EmitsMaterialHelper(T, g, auto_assign) ==
    GetNodeTreeType(T[g]) = "ShaderNodeTree" /\ auto_assign

CreateCall(tree, role) ==
    [call |-> "create", func |-> SanitizeName(tree.name), graph |-> tree.name, role |-> role]

HelperCall(name) == [call |-> name, func |-> <<>>, graph |-> <<>>, role |-> "helper"]

\* the driver calling a helper whatever the auto_assign option says
DriverIgnoringOption(T, g, nested, auto_assign) ==
    [k \in 1..Len(nested) |-> CreateCall(T[nested[k]], "nested")]
        \o <<CreateCall(T[g], "main")>>
        \o (IF GetNodeTreeType(T[g]) = "GeometryNodeTree"
            THEN <<HelperCall("assign_to_object")>>
            ELSE IF GetNodeTreeType(T[g]) = "ShaderNodeTree"
            THEN <<HelperCall("assign_to_material")>>
            ELSE <<>>)

Driver(T, g, nested, auto_assign) ==
    [k \in 1..Len(nested) |-> CreateCall(T[nested[k]], "nested")]
        \o <<CreateCall(T[g], "main")>>
        \o (IF GetNodeTreeType(T[g]) = "GeometryNodeTree" /\ auto_assign
            THEN <<HelperCall("assign_to_object")>>
            ELSE IF GetNodeTreeType(T[g]) = "ShaderNodeTree" /\ auto_assign
            THEN <<HelperCall("assign_to_material")>>
            ELSE <<>>)

Raised(exc) ==
    [raised |-> TRUE, exc |-> exc, nested |-> <<>>, routines |-> <<>>,
     object_helper |-> FALSE, material_helper |-> FALSE, driver |-> <<>>]

ExportNodeGroupToPython(T, g, auto_assign, include_nested) ==
    LET nested == NestedGroupsOf(T, g, include_nested)
        deps == DependencyRoutines(T, nested, 1)
        main == MainRoutine(T, g)
    IN  IF deps.raised THEN Raised(deps.exc)
        ELSE IF main.raised THEN Raised(main.exc)
        ELSE [raised |-> FALSE, exc |-> "", nested |-> nested,
              routines |-> deps.stmts \o <<main.routine>>,
              object_helper |-> EmitsObjectHelper(T, g, nested, auto_assign),
              material_helper |-> EmitsMaterialHelper(T, g, auto_assign),
              driver |-> Driver(T, g, nested, auto_assign)]

\* The top-level sections of the returned text, in the order the lines are
\* appended: dependency routines, root routine, helpers, main execution.
Sections(val) ==
    [k \in 1..Len(val.routines) |-> [section |-> "routine", graph |-> val.routines[k].graph]]
        \o (IF val.object_helper
            THEN <<[section |-> "assign_to_object", graph |-> <<>>]>> ELSE <<>>)
        \o (IF val.material_helper
            THEN <<[section |-> "assign_to_material", graph |-> <<>>]>> ELSE <<>>)
        \o <<[section |-> "driver", graph |-> <<>>]>>

(***************************************************************************)
(* Running the generated program.  "def create_<func>_node_group" binds    *)
(* the function name to the routine defined last under that name.  A       *)
(* routine returns the existing graph when its name is in                  *)
(* bpy.data.node_groups; otherwise it creates the graph and runs its node  *)
(* blocks, where a nested-group binding assigns node_tree when the named   *)
(* graph exists and prints the warning when it does not.  A run is the     *)
(* namespace with the bindings made and the warnings printed, each a pair  *)
(* of graph name and node position.                                        *)
(***************************************************************************)
RoutineCalled(val, func) ==
    val.routines[CHOOSE k \in 1..Len(val.routines) :
                    /\ val.routines[k].func = func
                    /\ \A j \in (k + 1)..Len(val.routines) : val.routines[j].func # func]

BindingsOf(routine) ==
    UNION {{<<i, routine.nodes[i].props[k].tree>> :
               k \in {k \in 1..Len(routine.nodes[i].props) :
                        routine.nodes[i].props[k].stmt = "bind_node_tree"}} :
           i \in 1..Len(routine.nodes)}

RunRoutine(routine, run) ==
    IF routine.graph \in run.namespace THEN run
    ELSE LET namespace == run.namespace \cup {routine.graph}
         IN  [namespace |-> namespace,
              bound |-> run.bound \cup
                  {<<routine.graph, b[1]>> : b \in {b \in BindingsOf(routine) : b[2] \in namespace}},
              warned |-> run.warned \cup
                  {<<routine.graph, b[1]>> : b \in {b \in BindingsOf(routine) : b[2] \notin namespace}}]

RECURSIVE RunDriver(_, _, _)
RunDriver(val, k, run) ==
    IF k > Len(val.driver) THEN run
    ELSE IF val.driver[k].call = "create"
         THEN RunDriver(val, k + 1, RunRoutine(RoutineCalled(val, val.driver[k].func), run))
         ELSE RunDriver(val, k + 1, run)

EmptyNamespace == [namespace |-> {}, bound |-> {}, warned |-> {}]

(***************************************************************************)
(* The host's graphs.  A graph is edited by the host; the exporter only    *)
(* reads it.                                                               *)
(***************************************************************************)
EmptyTree(g) ==
    [name |-> NameOf(g), bl_idname |-> KindOf(g), interface |-> <<>>,
     nodes |-> <<>>, links |-> <<>>]

GroupIdnameOf(tree) ==
    CASE tree.bl_idname = "GeometryNodeTree" -> "GeometryNodeGroup"
      [] tree.bl_idname = "ShaderNodeTree" -> "ShaderNodeGroup"
      [] OTHER -> "CompositorNodeGroup"

TotalNodes == LET RECURSIVE Sum(_)
                  Sum(g) == IF g = 0 THEN 0 ELSE Len(trees[g].nodes) + Sum(g - 1)
              IN  Sum(Len([g \in DOMAIN trees |-> g]))

NoCall == [op |-> "none", root |-> None, auto_assign |-> FALSE,
           include_nested |-> FALSE, val |-> <<>>]

Names == UNION {[1..n -> Alphabet] : n \in 0..MaxLen}

Sinks0 ==
    /\ edit_tree = None
    /\ props = [copy_to_clipboard |-> TRUE, save_to_file |-> FALSE,
                auto_assign |-> TRUE, include_nested |-> TRUE, filepath |-> ""]
    /\ fs_ok = TRUE
    /\ clipboard = <<>>
    /\ texts = <<>>
    /\ files = [dirs |-> {"/", "/out"}, written |-> <<>>]
    /\ reports = <<>>

sinks == <<edit_tree, props, fs_ok, clipboard, texts, files, reports>>

\* bl_rna.properties of a group node: node_tree is a writable POINTER
GroupNodeRna(t) ==
    <<[identifier |-> "node_tree", type |-> "POINTER", is_readonly |-> FALSE,
       readable |-> TRUE, value |-> t]>>

\* The host adds a group node to graph g whose node_tree is t (None: an
\* empty slot).
AddGroupNode(g, t) ==
    /\ ret.op = "none"
    /\ TotalNodes < MaxRefs
    /\ trees' = [trees EXCEPT ![g].nodes = Append(@,
           [name |-> NameOf(Len(trees[g].nodes) + 1),
            bl_idname |-> GroupIdnameOf(trees[g]),
            attrs |-> {"node_tree", "bl_rna"}, node_tree |-> t,
            inputs |-> <<>>, outputs |-> <<>>, rna |-> GroupNodeRna(t)])]
    /\ UNCHANGED <<sinks, ret>>

CallFind(g) ==
    /\ ret.op = "none"
    /\ ret' = [op |-> "find", root |-> g, auto_assign |-> FALSE,
               include_nested |-> FALSE,
               val |-> FindNestedNodeGroups(trees, g, {})]
    /\ UNCHANGED <<trees, sinks>>

CallExport(g, auto_assign, include_nested) ==
    /\ ret.op = "none"
    /\ ret' = [op |-> "export", root |-> g, auto_assign |-> auto_assign,
               include_nested |-> include_nested,
               val |-> ExportNodeGroupToPython(trees, g, auto_assign, include_nested)]
    /\ UNCHANGED <<trees, sinks>>

InitDeps ==
    /\ trees = [g \in 1..NumGraphs |-> EmptyTree(g)]
    /\ Sinks0
    /\ ret = NoCall

NextDeps ==
    \/ \E g \in DOMAIN trees, t \in {None} \cup DOMAIN trees : AddGroupNode(g, t)
    \/ \E g \in DOMAIN trees : CallFind(g)
    \/ \E g \in DOMAIN trees, a \in BOOLEAN, n \in BOOLEAN : CallExport(g, a, n)

SpecDeps == InitDeps /\ [][NextDeps]_vars

(***************************************************************************)
(* One graph with plain nodes and links.  A link names its end nodes and   *)
(* sockets; the host may hold a link whose node is not (or no longer) in   *)
(* the graph's node list, or whose socket is not in its node's list.       *)
(***************************************************************************)
LinkNodes == {NameOf(1), NameOf(2)}

SocketKeys == <<"s1", "s2">>

StaleKey == "gone"

SocketsOf(name, io) ==
    [k \in 1..Len(SocketKeys) |->
        [id |-> <<name, io, SocketKeys[k]>>, has_default |-> FALSE,
         default_value |-> [t |-> "NoneType"], is_linked |-> FALSE]]

NodeTemplates ==
    {[bl_idname |-> "ShaderNodeMath", attrs |-> {"operation", "use_clamp", "bl_rna"}],
     [bl_idname |-> "ShaderNodeMath", attrs |-> {"bl_rna"}]}

AddNode(g, template) ==
    /\ ret.op = "none"
    /\ Len(trees[g].nodes) < Cardinality(LinkNodes)
    /\ LET name == NameOf(Len(trees[g].nodes) + 1)
       IN  trees' = [trees EXCEPT ![g].nodes = Append(@,
              [name |-> name, bl_idname |-> template.bl_idname,
               attrs |-> template.attrs, node_tree |-> None,
               inputs |-> SocketsOf(name, "in"), outputs |-> SocketsOf(name, "out"),
               rna |-> <<>>])]
    /\ UNCHANGED <<sinks, ret>>

AddLink(g, from_node, from_key, to_node, to_key) ==
    /\ ret.op = "none"
    /\ Len(trees[g].links) < MaxLinks
    /\ trees' = [trees EXCEPT ![g].links = Append(@,
           [from_node |-> from_node, from_socket |-> <<from_node, "out", from_key>>,
            to_node |-> to_node, to_socket |-> <<to_node, "in", to_key>>])]
    /\ UNCHANGED <<sinks, ret>>

LinkKeys == {SocketKeys[k] : k \in 1..Len(SocketKeys)} \cup {StaleKey}

InitLinks ==
    /\ trees = [g \in {1} |-> EmptyTree(g)]
    /\ Sinks0
    /\ ret = NoCall

NextLinks ==
    \/ \E t \in NodeTemplates : AddNode(1, t)
    \/ \E fn \in LinkNodes, tn \in LinkNodes, fk \in LinkKeys, tk \in LinkKeys :
          AddLink(1, fn, fk, tn, tk)
    \/ CallExport(1, TRUE, TRUE)

SpecLinks == InitLinks /\ [][NextLinks]_vars

CallSanitize(name) ==
    /\ ret.op = "none"
    /\ ret' = [op |-> "sanitize", root |-> None, auto_assign |-> FALSE,
               include_nested |-> FALSE,
               val |-> [name |-> name, result |-> SanitizeName(name)]]
    /\ UNCHANGED <<trees, sinks>>

InitSanitize ==
    /\ trees = <<>>
    /\ Sinks0
    /\ ret = NoCall

NextSanitize == \E name \in Names : CallSanitize(name)

SpecSanitize == InitSanitize /\ [][NextSanitize]_vars

(***************************************************************************)
(* One graph with one node whose input sockets carry default values of the *)
(* types format_value tells apart.                                         *)
(***************************************************************************)
MaxInputs == 2      \* input sockets of the node in the defaults specification

Float(x) == [t |-> "float", v |-> x]

Str(chars) == [t |-> "str", v |-> chars]

SocketValues ==
    {[t |-> "NoneType"],
     Float(1),
     Str(<<"a", "b">>),
     [t |-> "Vector", items |-> <<Float(1), Float(2)>>],
     [t |-> "iterable", listable |-> TRUE, items |-> <<Str(<<"a">>), Str(<<"b">>)>>],
     [t |-> "iterable", listable |-> TRUE, items |-> <<Float(1), Str(<<"a">>)>>],
     [t |-> "iterable", listable |-> FALSE, items |-> <<>>]}

InputSockets ==
    {[id |-> <<"in", v.t>>, has_default |-> h, default_value |-> v, is_linked |-> l] :
        v \in SocketValues, h \in BOOLEAN, l \in BOOLEAN}

AddInput(g, socket) ==
    /\ ret.op = "none"
    /\ Len(trees[g].nodes[1].inputs) < MaxInputs
    /\ trees' = [trees EXCEPT ![g].nodes[1].inputs = Append(@, socket)]
    /\ UNCHANGED <<sinks, ret>>

InitDefaults ==
    /\ trees = [g \in {1} |->
                   [EmptyTree(g) EXCEPT !.nodes =
                       <<[name |-> NameOf(1), bl_idname |-> "GeometryNodeTransform",
                          attrs |-> {"bl_rna"}, node_tree |-> None,
                          inputs |-> <<>>, outputs |-> <<>>, rna |-> <<>>]>>]]
    /\ Sinks0
    /\ ret = NoCall

NextDefaults ==
    \/ \E socket \in InputSockets : AddInput(1, socket)
    \/ CallExport(1, TRUE, TRUE)

SpecDefaults == InitDefaults /\ [][NextDefaults]_vars

(***************************************************************************)
(* Calls of format_value on values of every type it tells apart.           *)
(***************************************************************************)
MaxItems == 3       \* elements of an iterable given to format_value

Elements ==
    {Str(<<"a">>), Str(<<"a", "b">>), Float(1), [t |-> "NoneType"],
     [t |-> "Vector", items |-> <<Float(1), Float(2)>>]}

Iterables ==
    {[t |-> "iterable", listable |-> TRUE, items |-> items] :
        items \in UNION {[1..n -> Elements] : n \in 0..MaxItems}}
    \cup {[t |-> "iterable", listable |-> FALSE, items |-> <<>>]}

FormatInputs == Elements \cup Iterables

\* repr of one element inside repr(tuple(items))
Repr(val) == [lit |-> "repr", of |-> val]

\* the element texts of a tuple literal
TupleElements(literal) == [k \in 1..Len(literal.items) |-> Repr(literal.items[k])]

CallFormat(val) ==
    /\ ret.op = "none"
    /\ ret' = [op |-> "format", root |-> None, auto_assign |-> FALSE,
               include_nested |-> FALSE,
               val |-> [arg |-> val, result |-> FormatValue(val)]]
    /\ UNCHANGED <<trees, sinks>>

InitFormat ==
    /\ trees = <<>>
    /\ Sinks0
    /\ ret = NoCall

NextFormat == \E val \in FormatInputs : CallFormat(val)

SpecFormat == InitFormat /\ [][NextFormat]_vars

(***************************************************************************)
(* One graph with one node of a kind the table does not list, whose        *)
(* bl_rna.properties the host declares.  readable: getattr(node,           *)
(* identifier) returns, rather than raises.                                *)
(***************************************************************************)
MaxProps == 2       \* declared properties of the node in the fallback specification

PropReads == {[readable |-> TRUE, value |-> "X"],
              [readable |-> TRUE, value |-> NoValue],
              [readable |-> FALSE, value |-> NoValue]}

RnaProps ==
    {[identifier |-> id, type |-> t, is_readonly |-> ro,
      readable |-> r.readable, value |-> r.value] :
        id \in {"hide", "mode"}, t \in {"ENUM", "BOOLEAN", "FLOAT"},
        ro \in BOOLEAN, r \in PropReads}

AddProp(g, prop) ==
    /\ ret.op = "none"
    /\ Len(trees[g].nodes[1].rna) < MaxProps
    /\ trees' = [trees EXCEPT ![g].nodes[1].rna = Append(@, prop)]
    /\ UNCHANGED <<sinks, ret>>

InitFallback ==
    /\ trees = [g \in {1} |->
                   [EmptyTree(g) EXCEPT !.nodes =
                       <<[name |-> NameOf(1), bl_idname |-> "NodeCustomKind",
                          attrs |-> {"bl_rna"}, node_tree |-> None,
                          inputs |-> <<>>, outputs |-> <<>>, rna |-> <<>>]>>]]
    /\ Sinks0
    /\ ret = NoCall

NextFallback ==
    \/ \E prop \in RnaProps : AddProp(1, prop)
    \/ CallExport(1, TRUE, TRUE)

SpecFallback == InitFallback /\ [][NextFallback]_vars

(***************************************************************************)
(* The export operators and their sinks: the clipboard, the text blocks of *)
(* bpy.data.texts (a block is the sequence of the chunks written to it)    *)
(* and the file system.  reports holds the reports of the last run.        *)
(***************************************************************************)
MaxRuns == 2        \* operator runs in one behaviour

FilePaths == {"", "/out", "/out/code.py", "/missing/new"}

Dirname(path) ==
    CASE path = "/out" -> "/"
      [] path = "/out/code.py" -> "/out"
      [] path = "/missing/new" -> "/missing"
      [] OTHER -> ""

Report(level, msg) == [level |-> level, msg |-> msg]

TextName(tree) == tree.name \o <<"_export.py">>

\* has_material_output and not has_interface (advisory only)
MaterialTreeWarning(tree) ==
    /\ \E i \in 1..Len(tree.nodes) : tree.nodes[i].bl_idname = "ShaderNodeOutputMaterial"
    /\ Len(tree.interface) = 0

Advisory(tree, msg) ==
    IF MaterialTreeWarning(tree) THEN <<Report("WARNING", msg)>> ELSE <<>>

\* "if text_name in bpy.data.texts: clear() else: new()", then write(code)
\* the write without the clear of an existing block
WriteTextBlockNoClear(blocks, text_name, code) ==
    [n \in DOMAIN blocks \cup {text_name} |->
        IF n # text_name THEN blocks[n]
        ELSE IF n \in DOMAIN blocks THEN Append(blocks[n], code) ELSE <<code>>]

\* A cleared block and a new block are both empty before the write.
WriteTextBlock(blocks, text_name, code) ==
    [n \in DOMAIN blocks \cup {text_name} |->
        IF n = text_name THEN <<code>> ELSE blocks[n]]

\* The path the file is written to, and whether the directory is made first.
FullPath(filepath, filename, dirs) ==
    IF filepath \in dirs THEN [path |-> <<filepath, filename>>, makedirs |-> FALSE]
    ELSE IF Dirname(filepath) # "" /\ Dirname(filepath) \in dirs
    THEN [path |-> <<filepath>>, makedirs |-> FALSE]
    ELSE [path |-> <<filepath, filename>>, makedirs |-> TRUE]

WriteFile(fs, target, filepath, code) ==
    [dirs |-> IF target.makedirs THEN fs.dirs \cup {filepath} ELSE fs.dirs,
     written |-> [q \in DOMAIN fs.written \cup {target.path} |->
                     IF q = target.path THEN code ELSE fs.written[q]]]

\* The file system after a save that raised: os.makedirs raised, or it made
\* the directory and open() or write() raised.
FailedWrite(fs, target, filepath) ==
    IF target.makedirs THEN {fs, [fs EXCEPT !.dirs = @ \cup {filepath}]} ELSE {fs}

\* the abort reporting success
NoTreeOutcomeFinished == [result |-> "FINISHED", level |-> "INFO"]

\* "self.report({'ERROR'}, ...); return {'CANCELLED'}"
NoTreeOutcome == [result |-> "CANCELLED", level |-> "ERROR"]

Outcome(op, g, result, code, file_failed, copy, text_name) ==
    [op |-> op, root |-> g, auto_assign |-> FALSE, include_nested |-> FALSE,
     val |-> [result |-> result, code |-> code, file_failed |-> file_failed,
              copy |-> copy, text_name |-> text_name, n |-> ret.val.n + 1]]

\* NODE_OT_export_to_python.execute, run on the graph g open in the editor
\* with the dialog's properties p; ok: the disk accepts the write.
Execute(g, p, ok) ==
    /\ ret.val.n < MaxRuns
    /\ edit_tree' = g
    /\ props' = p
    /\ fs_ok' = ok
    /\ IF g = None
       THEN /\ reports' = <<Report(NoTreeOutcome.level, "No node tree found")>>
            /\ ret' = Outcome("execute", g, NoTreeOutcome.result, <<>>, FALSE, FALSE, <<>>)
            /\ UNCHANGED <<clipboard, texts, files>>
       ELSE LET tree == trees[g]
                warn == Advisory(tree, "You're exporting a material tree")
                code == ExportNodeGroupToPython(trees, g, p.auto_assign, p.include_nested)
                copied == IF p.copy_to_clipboard
                          THEN <<Report("INFO", "Python code copied to clipboard")>>
                          ELSE <<>>
                saving == p.save_to_file /\ p.filepath # ""
                target == FullPath(p.filepath, SanitizeName(tree.name) \o <<".py">>,
                                   files.dirs)
            IN  IF code.raised
                THEN /\ reports' = warn
                     /\ ret' = Outcome("execute", g, "EXCEPTION", <<>>, FALSE, FALSE, <<>>)
                     /\ UNCHANGED <<clipboard, texts, files>>
                ELSE /\ clipboard' = IF p.copy_to_clipboard THEN <<code>> ELSE clipboard
                     /\ IF saving /\ ~ok
                        THEN /\ reports' = warn \o copied
                                    \o <<Report("ERROR", "Failed to save file")>>
                             /\ ret' = Outcome("execute", g, "CANCELLED", <<code>>, TRUE,
                                               p.copy_to_clipboard, TextName(tree))
                             /\ files' \in FailedWrite(files, target, p.filepath)
                             /\ UNCHANGED texts
                        ELSE /\ files' = IF saving
                                         THEN WriteFile(files, target, p.filepath, code)
                                         ELSE files
                             /\ texts' = WriteTextBlock(texts, TextName(tree), code)
                             /\ reports' = warn \o copied
                                    \o (IF saving THEN <<Report("INFO", "Saved to")>>
                                        ELSE <<>>)
                                    \o <<Report("INFO", "Code also saved to text block")>>
                             /\ ret' = Outcome("execute", g, "FINISHED", <<code>>, FALSE,
                                               p.copy_to_clipboard, TextName(tree))
    /\ UNCHANGED trees

\* NODE_OT_export_to_python_quick.execute
QuickExecute(g) ==
    /\ ret.val.n < MaxRuns
    /\ edit_tree' = g
    /\ IF g = None
       THEN /\ reports' = <<Report(NoTreeOutcome.level, "No node tree found")>>
            /\ ret' = Outcome("quick", g, NoTreeOutcome.result, <<>>, FALSE, FALSE, <<>>)
            /\ UNCHANGED <<clipboard, texts, files>>
       ELSE LET tree == trees[g]
                warn == Advisory(tree, "Exporting material tree")
                code == ExportNodeGroupToPython(trees, g, TRUE, TRUE)
            IN  IF code.raised
                THEN /\ reports' = warn
                     /\ ret' = Outcome("quick", g, "EXCEPTION", <<>>, FALSE, FALSE, <<>>)
                     /\ UNCHANGED <<clipboard, texts, files>>
                ELSE /\ clipboard' = <<code>>
                     /\ texts' = WriteTextBlock(texts, TextName(tree), code)
                     /\ reports' = warn \o <<Report("INFO", "Exported to clipboard and text block")>>
                     /\ ret' = Outcome("quick", g, "FINISHED", <<code>>, FALSE, TRUE,
                                       TextName(tree))
                     /\ UNCHANGED files
    /\ UNCHANGED <<trees, props, fs_ok>>

\* The dialog's properties: clipboard copy, file save and its path.
DialogProps ==
    {[copy_to_clipboard |-> c, save_to_file |-> sp[1], auto_assign |-> TRUE,
      include_nested |-> TRUE, filepath |-> sp[2]] :
        c \in BOOLEAN,
        sp \in ({FALSE} \X {""}) \cup ({TRUE} \X FilePaths)}

OperatorTrees ==
    [g \in 1..Len(TreeKinds) |->
        IF g = 1
        THEN [EmptyTree(g) EXCEPT !.nodes =
                 <<[name |-> NameOf(1), bl_idname |-> GroupIdnameOf(EmptyTree(g)),
                    attrs |-> {"node_tree", "bl_rna"}, node_tree |-> 2,
                    inputs |-> <<>>, outputs |-> <<>>, rna |-> GroupNodeRna(2)]>>]
        ELSE EmptyTree(g)]

InitOperator ==
    /\ trees = OperatorTrees
    /\ Sinks0
    /\ ret = [NoCall EXCEPT !.val = [result |-> "", code |-> <<>>, file_failed |-> FALSE,
                                     copy |-> FALSE, text_name |-> <<>>, n |-> 0]]

NextOperator ==
    \/ \E g \in {None} \cup DOMAIN trees, p \in DialogProps, ok \in BOOLEAN :
          /\ (ok \/ (g # None /\ p.save_to_file /\ p.filepath # ""))
          /\ Execute(g, p, ok)
    \/ \E g \in {None} \cup DOMAIN trees : QuickExecute(g)

SpecOperator == InitOperator /\ [][NextOperator]_vars

(***************************************************************************)
(* Properties.                                                             *)
(***************************************************************************)
Exported == ret.op = "export" /\ ~ret.val.raised

\* graph h holds a group node whose node_tree is graph g
RefersTo(h, g) ==
    \E i \in 1..Len(trees[h].nodes) :
        /\ trees[h].nodes[i].bl_idname \in GroupIdnames
        /\ trees[h].nodes[i].node_tree = g

RECURSIVE ReachableFrom(_)
ReachableFrom(S) ==
    LET more == S \cup {g \in DOMAIN trees : \E h \in S : RefersTo(h, g)}
    IN  IF more = S THEN S ELSE ReachableFrom(more)

Successors(h) == {g \in DOMAIN trees : RefersTo(h, g)}

OnCycle(g) == g \in ReachableFrom(Successors(g))

CycleReachable(root) == \E g \in ReachableFrom({root}) : OnCycle(g)

GraphNamed(name) == CHOOSE g \in DOMAIN trees : trees[g].name = name

RoutineGraphs(routines) == [k \in 1..Len(routines) |-> GraphNamed(routines[k].graph)]

DependencyOrdered(graphs) ==
    \A i, j \in 1..Len(graphs) : RefersTo(graphs[j], graphs[i]) => i < j

\* C1 (as claimed): on every reference topology, cycles included, the emitted
\* routines place every graph before the graphs that reference it and hold
\* no two routines for the same graph.
C1_OrderedNoDuplicateRoutines ==
    Exported =>
        /\ NoDuplicates(RoutineGraphs(ret.val.routines))
        /\ DependencyOrdered(RoutineGraphs(ret.val.routines))

\* C1 (amended): when no reference cycle is reachable from the root, the
\* emitted routines are dependency-ordered and pairwise for distinct graphs;
\* on every topology the dependency routines are pairwise for distinct
\* graphs, and the root has a second routine among them exactly when the
\* root lies on a reference cycle and dependencies are included.
C1_OrderedWhenAcyclic ==
    Exported =>
        LET all == RoutineGraphs(ret.val.routines)
            deps == SubSeq(all, 1, Len(all) - 1)
        IN  /\ all[Len(all)] = ret.root
            /\ NoDuplicates(deps)
            /\ Contains(deps, ret.root) <=> (ret.include_nested /\ OnCycle(ret.root))
            /\ ~CycleReachable(ret.root) =>
                  NoDuplicates(all) /\ DependencyOrdered(all)

\* a root with a shared sub-dependency: two emitted graphs reference a third
C1_Witness ==
    /\ Exported
    /\ ~CycleReachable(ret.root)
    /\ Len(ret.val.routines) = 3
    /\ \E g \in DOMAIN trees :
          /\ g # ret.root
          /\ RefersTo(ret.root, g)
          /\ \E h \in DOMAIN trees : h # ret.root /\ h # g /\ RefersTo(h, g)
                                      /\ RefersTo(ret.root, h)

\* C2 (as claimed): the list returned by find_nested_node_groups(R) has no
\* duplicates and never contains R itself, on every reference topology.
C2_NoDuplicatesNoRoot ==
    ret.op = "find" =>
        /\ NoDuplicates(ret.val.nested)
        /\ ~Contains(ret.val.nested, ret.root)

\* C3: discovery returns on every topology, cyclic ones included, after
\* entering each graph at most once (so after at most one call per group
\* node plus the first), and its list holds each graph at most once.
C3_EachGraphEnteredOnce ==
    ret.op = "find" =>
        /\ NoDuplicates(ret.val.entered)
        /\ NoDuplicates(ret.val.nested)
        /\ ret.val.visited = {trees[ret.val.entered[k]].name : k \in 1..Len(ret.val.entered)}
        /\ ret.val.calls <= 1 + TotalNodes

\* discovery has returned on A references B references A, started at A
C3_Witness ==
    /\ ret.op = "find"
    /\ \E b \in DOMAIN trees :
          /\ b # ret.root
          /\ RefersTo(ret.root, b) /\ RefersTo(b, ret.root)
          /\ Contains(ret.val.nested, b) /\ Contains(ret.val.nested, ret.root)
          /\ ret.val.calls = 3

IsLowerAlnumOrUnderscore(c) == c = "_" \/ (IsAlnum(c) /\ c \notin UpperLetters)

MainRoutineOf(val) == val.routines[Len(val.routines)]

PositionOf(tree, name) ==
    CHOOSE i \in 1..Len(tree.nodes) : tree.nodes[i].name = name

\* C5: every emitted connect statement names the variables of the link's two
\* nodes and the positions its two sockets hold in those nodes' socket lists.
C5_PositionalAddressing ==
    Exported =>
        LET tree == trees[ret.root]
            stmts == MainRoutineOf(ret.val).links
        IN  \A s \in 1..Len(stmts) :
              LET link == tree.links[stmts[s].link]
                  x == PositionOf(tree, link.from_node)
                  y == PositionOf(tree, link.to_node)
              IN  /\ stmts[s].from_var = MainRoutineOf(ret.val).nodes[x].var
                  /\ stmts[s].to_var = MainRoutineOf(ret.val).nodes[y].var
                  /\ stmts[s].from_var.index = x - 1
                  /\ stmts[s].to_var.index = y - 1
                  /\ tree.nodes[x].outputs[stmts[s].from_index + 1].id = link.from_socket
                  /\ tree.nodes[y].inputs[stmts[s].to_index + 1].id = link.to_socket

\* a link from the second output of one node to the first input of another
C5_Witness ==
    /\ Exported
    /\ \E s \in 1..Len(MainRoutineOf(ret.val).links) :
          LET stmt == MainRoutineOf(ret.val).links[s]
          IN  /\ stmt.from_index = 1 /\ stmt.to_index = 0
              /\ stmt.from_var.index = 1 /\ stmt.to_var.index = 0

NodePresent(tree, name) == \E i \in 1..Len(tree.nodes) : tree.nodes[i].name = name

LinkPresent(tree, k) ==
    NodePresent(tree, tree.links[k].from_node) /\ NodePresent(tree, tree.links[k].to_node)

C7_NoExceptionPropagates == ret.op = "export" => ~ret.val.raised

\* C8 (as claimed): after a run whose file save failed, the clipboard (when
\* copying is enabled) and the text block both hold the generated text.
C8_OtherSinksPopulated ==
    (ret.op = "execute" /\ ret.val.file_failed) =>
        /\ ret.val.copy => clipboard = ret.val.code
        /\ ret.val.text_name \in DOMAIN texts
        /\ texts[ret.val.text_name] = ret.val.code

IsRun == ret'.val.n # ret.val.n

\* C9: a run of either operator with no active graph reports an ERROR,
\* returns CANCELLED and leaves the clipboard, the text blocks and the files
\* as they were.
C9_NoTreeAborts ==
    [][(IsRun /\ edit_tree' = None) =>
          /\ ret'.val.result = "CANCELLED"
          /\ \E k \in 1..Len(reports') : reports'[k].level = "ERROR"
          /\ clipboard' = clipboard /\ texts' = texts /\ files' = files]_vars

\* a run with no active graph after a run that filled the sinks
C9_Witness ==
    /\ ret.op \in {"execute", "quick"}
    /\ ret.root = None
    /\ ret.val.result = "CANCELLED"
    /\ clipboard # <<>>
    /\ DOMAIN texts # {}

\* C10: assign_to_object is emitted exactly when helpers are enabled and a
\* routine for a geometry graph is emitted; assign_to_material exactly when
\* helpers are enabled and the root is a shader graph.
C10_HelperEmission ==
    Exported =>
        /\ ret.val.object_helper <=>
              /\ ret.auto_assign
              /\ \E k \in 1..Len(ret.val.routines) :
                    trees[GraphNamed(ret.val.routines[k].graph)].bl_idname = "GeometryNodeTree"
        /\ ret.val.material_helper <=>
              (ret.auto_assign /\ trees[ret.root].bl_idname = "ShaderNodeTree")

\* a shader root with a geometry dependency gets both helpers
C10_Witness ==
    /\ Exported
    /\ ret.auto_assign
    /\ trees[ret.root].bl_idname = "ShaderNodeTree"
    /\ Len(ret.val.routines) > 1
    /\ ret.val.object_helper
    /\ ret.val.material_helper

DriverCalls(val, name) == \E k \in 1..Len(val.driver) : val.driver[k].call = name

HasGeometryDependency(val) ==
    \E k \in 1..Len(val.nested) : trees[val.nested[k]].bl_idname = "GeometryNodeTree"

\* C11 (as claimed): the driver calls assign_to_object exactly when that
\* helper was emitted, and assign_to_material exactly when that helper was
\* emitted.
C11_DriverCallsIffEmitted ==
    Exported =>
        /\ DriverCalls(ret.val, "assign_to_object") <=> ret.val.object_helper
        /\ DriverCalls(ret.val, "assign_to_material") <=> ret.val.material_helper

\* C11 (amended): the driver calls a helper only if that helper was emitted;
\* it calls assign_to_material exactly when that helper was emitted and
\* assign_to_object exactly when helpers are enabled and the root is a
\* geometry graph, so assign_to_object is emitted without being called
\* exactly when helpers are enabled, the root is not a geometry graph and a
\* dependency is one.
C11_DriverCallsOnlyEmitted ==
    Exported =>
        /\ DriverCalls(ret.val, "assign_to_object") => ret.val.object_helper
        /\ DriverCalls(ret.val, "assign_to_material") <=> ret.val.material_helper
        /\ DriverCalls(ret.val, "assign_to_object") <=>
              (ret.auto_assign /\ trees[ret.root].bl_idname = "GeometryNodeTree")
        /\ (ret.val.object_helper /\ ~DriverCalls(ret.val, "assign_to_object")) <=>
              /\ ret.auto_assign
              /\ trees[ret.root].bl_idname # "GeometryNodeTree"
              /\ HasGeometryDependency(ret.val)

\* a compositor root with a geometry dependency: the helper is emitted and
\* the driver calls no helper
C11_Witness ==
    /\ Exported
    /\ ret.auto_assign
    /\ trees[ret.root].bl_idname = "CompositorNodeTree"
    /\ ret.val.object_helper
    /\ ~DriverCalls(ret.val, "assign_to_object")
    /\ ~DriverCalls(ret.val, "assign_to_material")

SectionKinds(val) == [k \in 1..Len(Sections(val)) |-> Sections(val)[k].section]

HelperSections(val) ==
    LET isHelper(x) == x \in {"assign_to_object", "assign_to_material"}
    IN  SelectSeq(SectionKinds(val), isHelper)

RootRoutines(val) ==
    {k \in 1..Len(Sections(val)) :
        /\ Sections(val)[k].section = "routine"
        /\ Sections(val)[k].graph = trees[ret.root].name}

\* C12 (as claimed): the program holds exactly one routine for the root
\* graph, at most one helper routine, and never both assign_to_object and
\* assign_to_material.
C12_OneMainAtMostOneHelper ==
    Exported =>
        /\ Cardinality(RootRoutines(ret.val)) = 1
        /\ Len(HelperSections(ret.val)) <= 1

\* C12 (amended): the program is the dependency routines, the root routine,
\* the helpers and the driver, in that order; both helpers are emitted,
\* assign_to_object first, exactly when helpers are enabled, the root is a
\* shader graph and a dependency is a geometry graph; the root has one
\* routine, and a second one among the dependency routines exactly when it
\* lies on a reference cycle and dependencies are included.
C12_ProgramShape ==
    Exported =>
        LET kinds == SectionKinds(ret.val)
            n == Len(ret.val.routines)
            helpers == HelperSections(ret.val)
        IN  /\ n >= 1
            /\ \A k \in 1..n : kinds[k] = "routine"
            /\ Sections(ret.val)[n].graph = trees[ret.root].name
            /\ SubSeq(kinds, n + 1, Len(kinds)) = helpers \o <<"driver">>
            /\ helpers \in {<<>>, <<"assign_to_object">>, <<"assign_to_material">>,
                             <<"assign_to_object", "assign_to_material">>}
            /\ Len(helpers) = 2 <=>
                  /\ ret.auto_assign
                  /\ trees[ret.root].bl_idname = "ShaderNodeTree"
                  /\ HasGeometryDependency(ret.val)
            /\ Cardinality(RootRoutines(ret.val)) =
                  IF ret.include_nested /\ OnCycle(ret.root) THEN 2 ELSE 1

\* a program with one dependency routine, the root routine, both helpers
\* and the driver
C12_Witness ==
    /\ Exported
    /\ SectionKinds(ret.val) =
          <<"routine", "routine", "assign_to_object", "assign_to_material", "driver">>

\* the node block binds node_tree to the named graph inside an existence
\* check with a warning in the else branch
BindsGuarded(block, name) ==
    \E k \in 1..Len(block.props) :
        /\ block.props[k].stmt = "bind_node_tree"
        /\ block.props[k].tree = name
        /\ block.props[k].guarded
        /\ block.props[k].warns

\* C13 (as claimed): every node of the root graph that holds a set
\* nested-group reference, whatever its group kind, gets a node block that
\* binds the reference inside an existence check with a warning.
C13_EveryReferenceBoundGuarded ==
    Exported =>
        \A i \in 1..Len(trees[ret.root].nodes) :
            IsNestedRef(trees[ret.root].nodes[i]) =>
                BindsGuarded(MainRoutineOf(ret.val).nodes[i],
                             trees[trees[ret.root].nodes[i].node_tree].name)

\* input socket j (counted from 1) has a default value, no link and a literal
Representable(socket) ==
    /\ socket.has_default
    /\ ~socket.is_linked
    /\ FormatValue(socket.default_value) # NoLiteral

\* C14: the node block holds a guarded default-value assignment for input j
\* exactly when socket j has a default value, is not linked and the
\* formatter returns a literal for it; the assignments come in socket order,
\* one per socket, each with the socket's literal, whatever the other
\* sockets hold.
C14_DefaultsEmittedIffRepresentable ==
    Exported =>
        \A i \in 1..Len(trees[ret.root].nodes) :
            LET inputs == trees[ret.root].nodes[i].inputs
                stmts == MainRoutineOf(ret.val).nodes[i].defaults
            IN  /\ {stmts[k].input : k \in 1..Len(stmts)} =
                      {j - 1 : j \in {x \in 1..Len(inputs) : Representable(inputs[x])}}
                /\ \A k, l \in 1..Len(stmts) : k < l => stmts[k].input < stmts[l].input
                /\ \A k \in 1..Len(stmts) :
                      /\ stmts[k].guarded
                      /\ stmts[k].literal = FormatValue(inputs[stmts[k].input + 1].default_value)

\* the first socket holds None, the second a float: one assignment, for
\* the second socket
C14_Witness ==
    /\ Exported
    /\ Len(trees[ret.root].nodes) = 1
    /\ Len(trees[ret.root].nodes[1].inputs) = 2
    /\ trees[ret.root].nodes[1].inputs[1].has_default
    /\ trees[ret.root].nodes[1].inputs[1].default_value.t = "NoneType"
    /\ Len(MainRoutineOf(ret.val).nodes[1].defaults) = 1
    /\ MainRoutineOf(ret.val).nodes[1].defaults[1].input = 1

IsSingleCharacter(item) == item.t = "str" /\ Len(item.v) = 1

AllSingleCharacters(items) == \A k \in 1..Len(items) : IsSingleCharacter(items[k])

\* C15 (as claimed): for an iterable that is neither text nor an aggregate,
\* the result is "not representable" whenever every element is a single
\* character, and otherwise a tuple literal of the formatted elements.
C15_TupleOfFormattedElements ==
    (ret.op = "format" /\ ret.val.arg.t = "iterable") =>
        IF AllSingleCharacters(ret.val.arg.items)
        THEN ret.val.result = NoLiteral
        ELSE /\ ret.val.result # NoLiteral
             /\ ret.val.result.lit = "tuple"
             /\ TupleElements(ret.val.result) =
                   [k \in 1..Len(ret.val.arg.items) |-> FormatValue(ret.val.arg.items[k])]

\* C15 (amended): for an iterable that is neither text nor an aggregate, the
\* result is "not representable" exactly when the iterable cannot be listed
\* or is non-empty with every element a single character; otherwise it is
\* the repr of the tuple of its elements (so "()" for an empty iterable),
\* whose element texts are the formatted elements exactly when no element
\* is None, an aggregate or an iterable.
C15_TupleOfReprElements ==
    (ret.op = "format" /\ ret.val.arg.t = "iterable") =>
        LET arg == ret.val.arg
            result == ret.val.result
        IN  /\ result = NoLiteral <=>
                  \/ ~arg.listable
                  \/ arg.items # <<>> /\ AllSingleCharacters(arg.items)
            /\ result # NoLiteral =>
                  /\ result.lit = "tuple"
                  /\ TupleElements(result) = [k \in 1..Len(arg.items) |-> Repr(arg.items[k])]
                  /\ TupleElements(result) =
                         [k \in 1..Len(arg.items) |-> FormatValue(arg.items[k])]
                      <=> \A k \in 1..Len(arg.items) :
                             arg.items[k].t \in {"str", "bool", "int", "float"}

\* a single character and a float: a tuple literal of two elements
C15_Witness ==
    /\ ret.op = "format"
    /\ ret.val.arg.t = "iterable"
    /\ Len(ret.val.arg.items) = 2
    /\ IsSingleCharacter(ret.val.arg.items[1])
    /\ ret.val.arg.items[2].t = "float"
    /\ ret.val.result # NoLiteral
    /\ Len(TupleElements(ret.val.result)) = 2

\* the run before this step left a generated text
LeftCode == ret.val.code # <<>>

References(val) ==
    UNION {{<<trees[g].name, i>> :
               i \in {i \in 1..Len(trees[g].nodes) : IsNestedRef(trees[g].nodes[i])}} :
           g \in ReachableFrom({ret.root})}

\* C17 (as claimed): running the driver of an export with dependencies
\* against a namespace holding none of the graphs prints no "not found"
\* warning and leaves every nested-group reference bound.
C17_DependenciesConstructedFirst ==
    (Exported /\ ret.include_nested) =>
        LET run == RunDriver(ret.val, 1, EmptyNamespace)
        IN  /\ run.warned = {}
            /\ References(ret.val) \subseteq run.bound

\* C18 (as claimed): a link whose end nodes are in the node list but one of
\* whose sockets is not in its node's socket list is skipped without an
\* exception, and the other links still get their statements, in order.
C18_UnresolvableSocketSkipped ==
    (ret.op = "export"
       /\ \A i \in 1..Len(trees[ret.root].nodes) : "operation" \in trees[ret.root].nodes[i].attrs) =>
        LET tree == trees[ret.root]
            resolvable(k) == LinkPresent(tree, k) /\ SocketsFound(tree, tree.links[k])
        IN  /\ ~ret.val.raised
            /\ [s \in 1..Len(MainRoutineOf(ret.val).links) |->
                   MainRoutineOf(ret.val).links[s].link]
                 = SelectSeq([k \in 1..Len(tree.links) |-> k], resolvable)

Assignable(prop) ==
    /\ prop.identifier \notin SKIP_PROPS
    /\ ~prop.is_readonly
    /\ prop.type \in {"ENUM", "BOOLEAN"}
    /\ prop.readable
    /\ prop.value # NoValue

\* C19: for a node of a kind without a table entry the export returns, and
\* the node block assigns exactly the declared attributes that are not in
\* the blocklist, not read-only, of kind enum or boolean, readable and not
\* None, in declaration order, whatever the attributes before them do.
C19_FallbackAssignsIffAssignable ==
    ret.op = "export" =>
        /\ ~ret.val.raised
        /\ \A i \in 1..Len(trees[ret.root].nodes) :
              LET rna == trees[ret.root].nodes[i].rna
                  stmts == MainRoutineOf(ret.val).nodes[i].props
              IN  /\ [k \in 1..Len(stmts) |-> stmts[k].attr] =
                        [k \in 1..Len(SelectSeq(rna, Assignable)) |->
                            SelectSeq(rna, Assignable)[k].identifier]
                  /\ \A k \in 1..Len(stmts) :
                        stmts[k].quoted <=> SelectSeq(rna, Assignable)[k].type = "ENUM"

\* the first attribute cannot be read, the second is assigned
C19_Witness ==
    /\ Exported
    /\ Len(trees[ret.root].nodes) = 1
    /\ Len(trees[ret.root].nodes[1].rna) = 2
    /\ ~trees[ret.root].nodes[1].rna[1].readable
    /\ ~trees[ret.root].nodes[1].rna[1].is_readonly
    /\ trees[ret.root].nodes[1].rna[1].identifier = "mode"
    /\ trees[ret.root].nodes[1].rna[1].type = "ENUM"
    /\ Len(MainRoutineOf(ret.val).nodes[1].props) = 1

\* C20: in the root routine the variable names of the nodes are pairwise
\* distinct texts, and each link statement names the variable of its source
\* node and of its destination node, which no other node has.
C20_VariableNamesDistinct ==
    Exported =>
        LET tree == trees[ret.root]
            blocks == MainRoutineOf(ret.val).nodes
            stmts == MainRoutineOf(ret.val).links
            varOf(name) == VarText(blocks[PositionOf(tree, name)].var)
            holders(text) == {i \in 1..Len(blocks) : VarText(blocks[i].var) = text}
        IN  /\ Len(blocks) = Len(tree.nodes)
            /\ \A i, j \in 1..Len(blocks) :
                  VarText(blocks[i].var) = VarText(blocks[j].var) => i = j
            /\ \A k \in 1..Len(stmts) :
                  LET link == tree.links[stmts[k].link]
                  IN  /\ VarText(stmts[k].from_var) = varOf(link.from_node)
                      /\ VarText(stmts[k].to_var) = varOf(link.to_node)
                      /\ holders(VarText(stmts[k].from_var)) = {PositionOf(tree, link.from_node)}
                      /\ holders(VarText(stmts[k].to_var)) = {PositionOf(tree, link.to_node)}

\* two nodes of the same sanitized name with a link from one to the other
C20_Witness ==
    /\ Exported
    /\ Len(MainRoutineOf(ret.val).nodes) = 2
    /\ MainRoutineOf(ret.val).nodes[1].var.name = MainRoutineOf(ret.val).nodes[2].var.name
    /\ \E k \in 1..Len(MainRoutineOf(ret.val).links) :
          /\ MainRoutineOf(ret.val).links[k].from_var.index = 0
          /\ MainRoutineOf(ret.val).links[k].to_var.index = 1

\* C21: with include_nested disabled the dependency list is empty, the
\* program holds the root's routine and no other, the driver makes the one
\* create call for the root, and the helpers depend on the root's kind only.
C21_NestedDisabled ==
    (Exported /\ ~ret.include_nested) =>
        /\ ret.val.nested = <<>>
        /\ Len(ret.val.routines) = 1
        /\ ret.val.routines[1].graph = trees[ret.root].name
        /\ \A k \in 1..Len(ret.val.driver) : ret.val.driver[k].role # "nested"
        /\ Cardinality({k \in 1..Len(ret.val.driver) : ret.val.driver[k].call = "create"}) = 1
        /\ ret.val.driver[1] = CreateCall(trees[ret.root], "main")
        /\ ret.val.object_helper <=>
              (ret.auto_assign /\ trees[ret.root].bl_idname = "GeometryNodeTree")
        /\ ret.val.material_helper <=>
              (ret.auto_assign /\ trees[ret.root].bl_idname = "ShaderNodeTree")

\* a shader root holding a group node that references a geometry graph,
\* exported with helpers and without dependencies
C21_Witness ==
    /\ Exported
    /\ ~ret.include_nested
    /\ ret.auto_assign
    /\ trees[ret.root].bl_idname = "ShaderNodeTree"
    /\ \E g \in DOMAIN trees :
          RefersTo(ret.root, g) /\ trees[g].bl_idname = "GeometryNodeTree"
    /\ ~ret.val.object_helper
    /\ ret.val.material_helper

\* a routine without its trailing blank lines
Statements(routine) == [routine EXCEPT !.tail = 0]

\* C22: the routine emitted for the root has the statements, in order, of
\* the routine export_single_node_group emits for the same graph; the two
\* differ in their trailing blank lines only.
C22_RootRoutineAsSingle ==
    Exported =>
        LET single == ExportSingleNodeGroup(trees, ret.root)
        IN  /\ ~single.raised
            /\ Statements(MainRoutineOf(ret.val)) = Statements(single.routine)
            /\ MainRoutineOf(ret.val).tail >= 1
            /\ single.routine.tail >= 1

\* a root routine with two node blocks and two link statements
C22_Witness ==
    /\ Exported
    /\ Len(MainRoutineOf(ret.val).nodes) = 2
    /\ Len(MainRoutineOf(ret.val).links) = 2
    /\ MainRoutineOf(ret.val).tail # ExportSingleNodeGroup(trees, ret.root).routine.tail

\* C23 (as claimed): routines emitted for distinct graphs have distinct
\* function names, and every create call of the driver resolves to the
\* routine that constructs the graph the call is made for.
C23_RoutineNamesDistinct ==
    Exported =>
        /\ \A i, j \in 1..Len(ret.val.routines) :
              ret.val.routines[i].graph # ret.val.routines[j].graph =>
                  ret.val.routines[i].func # ret.val.routines[j].func
        /\ \A k \in 1..Len(ret.val.driver) :
              ret.val.driver[k].call = "create" =>
                  RoutineCalled(ret.val, ret.val.driver[k].func).graph = ret.val.driver[k].graph

\* C24: a run of either operator that finishes leaves, in the text block
\* named after the exported graph, exactly the text that run generated, and
\* creates no other block and changes no other block; a run that does not
\* finish leaves the text blocks as they were.
C24_TextBlockHoldsLatestExport ==
    [][IsRun =>
          IF ret'.val.result = "FINISHED"
          THEN LET name == TextName(trees[ret'.root])
               IN  /\ DOMAIN texts' = DOMAIN texts \cup {name}
                   /\ texts'[name] = ret'.val.code
                   /\ Len(texts'[name]) = 1
                   /\ \A n \in DOMAIN texts : n # name => texts'[n] = texts[n]
          ELSE texts' = texts]_vars

\* a second finished export of a graph whose first export saved a file: one
\* text block, holding one text
C24_Witness ==
    /\ ret.op = "quick"
    /\ ret.val.n = 2
    /\ ret.val.result = "FINISHED"
    /\ ret.root = 2
    /\ files.written # <<>>
    /\ DOMAIN texts = {TextName(trees[2])}
    /\ texts[TextName(trees[2])] = ret.val.code

====
